---- MODULE Spec2Model ----
(***************************************************************************)
(* TTN -> InfluxDB bridge (ttn-influx).  The repository holds four         *)
(* revisions of the same process:                                          *)
(*   "part0_r1"  src/unnamed/part_000 lines 1-78    (no watchdog)          *)
(*   "part0_r2"  src/unnamed/part_000 lines 80-293  (watchdog, option B)   *)
(*   "index_r1"  src/index.js lines 1-138           (no watchdog)          *)
(*   "index_r2"  src/index.js lines 147-288         (watchdog, variant A)  *)
(* The variable rev selects the revision that is running.                  *)
(*                                                                         *)
(* Time: now is Date.now() counted in steps of StepTicks watchdog periods   *)
(* (StepTicks * TICK_MS milliseconds), so that Date.now() - last is         *)
(* (now - last) * StepTicks * TICK_MS milliseconds.                         *)
(***************************************************************************)
EXTENDS Integers, Sequences, FiniteSets, TLC

VARIABLES
    rev,                \* the revision of the process that is running
    now,                \* Date.now(), in time steps
    mqttConnected,      \* part_000:89
    lastMQTTConnected,  \* part_000:88
    lastMQTTOnline,     \* index.js:150
    lifecycle,          \* the last connect/offline/close/end event the client emitted
    lastEvent,          \* the handler that ran last
    pending,            \* pending writeApi.close() promises, per shutdown path
    closeCalls,         \* number of writeApi.close() calls so far
    exited,             \* process.exit() was reached
    exitCode,           \* its status
    exitBy,             \* the path that reached it
    msg,                \* the payload of the last message received
    writeCalls,         \* writeApi.writePoint() calls made for that message
    handed,             \* the point handed to writePoint for that message
    writeOk,            \* writePoint returned without throwing
    inbox,              \* messages in flight, not yet handed to the handler
    pm10Seen,           \* device and pm10 field name of an earlier written point
    subCalls            \* subscribe() calls made by the last connect handler run

connVars == <<mqttConnected, lastMQTTConnected, lastMQTTOnline>>
exitVars == <<pending, closeCalls, exited, exitCode, exitBy>>
msgVars  == <<msg, writeCalls, handed, writeOk>>
seenVars == <<inbox, pm10Seen>>
vars == <<rev, now, mqttConnected, lastMQTTConnected, lastMQTTOnline, lifecycle,
          lastEvent, pending, closeCalls, exited, exitCode, exitBy,
          msg, writeCalls, handed, writeOk, inbox, pm10Seen, subCalls>>

Revisions == {"part0_r1", "part0_r2", "index_r1", "index_r2"}

(***************************************************************************)
(* Bounds of the model.                                                    *)
(***************************************************************************)
StartTime == 3      \* Date.now() at process start (an epoch time, far from 0)
Horizon == 3        \* time steps of run time explored
MaxClose == 2       \* writeApi.close() calls explored
StepTicks == 5      \* watchdog periods in one time step

MaxTime == StartTime + Horizon

(***************************************************************************)
(* JavaScript values met in a payload.  k is the kind of the value, n its  *)
(* number (numbers and booleans), s the result of String(value).           *)
(***************************************************************************)
JSVal(k, n, s) == [k |-> k, n |-> n, s |-> s]

Undef    == JSVal("undefined", 0, "undefined")
Null     == JSVal("null", 0, "null")
BoolT    == JSVal("boolean", 1, "true")
Num0     == JSVal("number", 0, "0")
Num1     == JSVal("number", 1, "1")
Num2     == JSVal("number", 2, "2")
Num42    == JSVal("number", 42, "42")
Infinite == JSVal("number", 0, "Infinity")   \* JSON.parse("1e999")
Str(s)   == JSVal("string", 0, s)
Nested   == JSVal("object", 0, "[object Object]")

\* typeof value
TypeOf(v) ==
    CASE v.k = "null"  -> "object"
      [] v.k = "array" -> "object"
      [] OTHER         -> v.k

\* the truth value of value in a condition (!value is its negation)
Truthy(v) ==
    CASE v.k = "undefined" -> FALSE
      [] v.k = "null"      -> FALSE
      [] v.k = "boolean"   -> v.n = 1
      [] v.k = "number"    -> v.s = "Infinity" \/ v.n # 0
      [] v.k = "string"    -> v.s # ""
      [] OTHER             -> TRUE

\* value is undefined or null: a property access on it throws a TypeError
Nullish(v) == v.k \in {"undefined", "null"}

\* the strings of the model that parseFloat reads as a finite number
NumericStrings == ("12" :> 12) @@ ("1" :> 1) @@ ("2" :> 2) @@ ("42" :> 42) @@ ("0" :> 0)

\* parseFloat(value): finite is FALSE for NaN and the infinities
ParseFloat(v) ==
    IF v.s \in DOMAIN NumericStrings
    THEN [finite |-> TRUE, n |-> NumericStrings[v.s]]
    ELSE [finite |-> FALSE, n |-> 0]

\* Point.floatField(name, value): the float it stores, or finite = FALSE when it
\* throws "invalid float value" (a number is taken as it is, anything else
\* goes through parseFloat; a non-finite result throws)
FloatOf(v) ==
    IF TypeOf(v) = "number"
    THEN [finite |-> v.s # "Infinity", n |-> v.n]
    ELSE ParseFloat(v)

(***************************************************************************)
(* Payloads.  A decoded payload is a value with its own enumerable         *)
(* properties e: a key that is not a property holds Undef (JSON has no     *)
(* undefined, so a key holding Undef is an absent key).                    *)
(***************************************************************************)
Keys == {"pm10", "temp", "pm10_1", "humidity", "0"}

NoEntries == [key \in Keys |-> Undef]

Decoded(v, e) == [k |-> v.k, n |-> v.n, s |-> v.s, e |-> e]

\* Object.entries(decoded) as a set of keys
OwnKeys(decoded) == {key \in Keys : decoded.e[key] # Undef}

ObjectPayloads ==
    { Decoded(Nested, [key \in Keys |->
          CASE key = "pm10"     -> a
            [] key = "temp"     -> b
            [] key = "pm10_1"   -> c
            [] key = "humidity" -> d
            [] OTHER            -> Undef]) :
        a \in {Undef, Num1, Infinite, Str("12"), Str("n/a"), Null},
        b \in {Undef, Num2, Infinite, BoolT, Nested},
        c \in {Undef, Num2},
        d \in {Undef, Str("n/a")} }

\* decoded_payload values that are not objects: absent, null, 0, 5-like number,
\* "", a string (its entries are its characters), true, and the list [1]
OtherPayloads ==
    { Decoded(Undef, NoEntries), Decoded(Null, NoEntries),
      Decoded(Num0, NoEntries), Decoded(Num42, NoEntries),
      Decoded(Str(""), NoEntries),
      Decoded(Str("a"), [NoEntries EXCEPT !["0"] = Str("a")]),
      Decoded(BoolT, NoEntries),
      Decoded(JSVal("array", 0, "1"), [NoEntries EXCEPT !["0"] = Num1]) }

DecodedPayloads == ObjectPayloads \cup OtherPayloads

DeviceIds == {Undef, Str(""), Str("mkrwan-1"), Str("mkrwan-2"), Str("sensor-x"),
              Str("1"), Num42}

\* A message: parses says whether JSON.parse succeeds, top is the parsed
\* document, edi its end_device_ids, dev end_device_ids.device_id, um its
\* uplink_message and dec uplink_message.decoded_payload.
Message(parses, top, edi, dev, um, dec) ==
    [parses |-> parses, top |-> top, edi |-> edi, dev |-> dev, um |-> um, dec |-> dec]

Malformed == Message(FALSE, Undef, Undef, Undef, Undef, Decoded(Undef, NoEntries))

NoMessage == Message(FALSE, Null, Undef, Undef, Undef, Decoded(Undef, NoEntries))

Payloads ==
    {Malformed,
     Message(TRUE, Null, Undef, Undef, Undef, Decoded(Undef, NoEntries))}
    \cup { Message(TRUE, Nested, edi, Undef, Nested, Decoded(Nested, [NoEntries EXCEPT !["temp"] = Num2])) :
             edi \in {Undef, Null} }
    \cup { Message(TRUE, Nested, Nested, dev, um, Decoded(Undef, NoEntries)) :
             dev \in {Str("mkrwan-1")}, um \in {Undef, Null} }
    \cup { Message(TRUE, Nested, Nested, dev, Nested, dec) :
             dev \in DeviceIds, dec \in DecodedPayloads }

\* the end-to-end example of the design, and one payload of each failure class
SmallPayloads ==
    {Malformed,
     Message(TRUE, Nested, Nested, Str("mkrwan-1"), Nested,
             Decoded(Nested, [NoEntries EXCEPT !["pm10"] = Num1, !["temp"] = Num2,
                                               !["humidity"] = Str("n/a")])),
     Message(TRUE, Nested, Nested, Str("sensor-x"), Nested,
             Decoded(Nested, [NoEntries EXCEPT !["pm10"] = Infinite, !["temp"] = Num2]))}

(***************************************************************************)
(* The message handlers.  Decoding yields status "threw" (an exception     *)
(* reached the handler's outer catch), "skipped" (an early return) or "ok" *)
(* with the device id and the decoded payload.                             *)
(***************************************************************************)
Outcome(status, devId, decoded) == [status |-> status, devId |-> devId, decoded |-> decoded]

\* part_000:50-54   payload.end_device_ids.device_id, payload.uplink_message.decoded_payload
DecodeP1(m) ==
    IF ~m.parses \/ Nullish(m.top) \/ Nullish(m.edi) \/ Nullish(m.um)
    THEN Outcome("threw", Undef, m.dec)
    ELSE IF ~Truthy(m.dec) THEN Outcome("skipped", m.dev, m.dec)
    ELSE Outcome("ok", m.dev, m.dec)

\* index.js:74-78   json.end_device_ids.device_id, json.uplink_message?.decoded_payload
DecodeI1(m) ==
    IF ~m.parses \/ Nullish(m.top) \/ Nullish(m.edi)
    THEN Outcome("threw", Undef, m.dec)
    ELSE IF ~Truthy(m.dec) THEN Outcome("skipped", m.dev, m.dec)
    ELSE Outcome("ok", m.dev, m.dec)

\* index.js:219-223  json.end_device_ids?.device_id, json.uplink_message?.decoded_payload
DecodeI2(m) ==
    IF ~m.parses \/ Nullish(m.top)
    THEN Outcome("threw", Undef, m.dec)
    ELSE IF ~Truthy(m.dev) \/ ~Truthy(m.dec) THEN Outcome("skipped", m.dev, m.dec)
    ELSE Outcome("ok", m.dev, m.dec)

\* part_000:180-192  json?.end_device_ids?.device_id, json?.uplink_message?.decoded_payload
DecodeP2(m) ==
    IF ~m.parses THEN Outcome("threw", Undef, m.dec)
    ELSE IF ~Truthy(m.dev) THEN Outcome("skipped", m.dev, m.dec)
    ELSE IF ~Truthy(m.dec) \/ TypeOf(m.dec) # "object" THEN Outcome("skipped", m.dev, m.dec)
    ELSE Outcome("ok", m.dev, m.dec)

NoFields == [name \in {} |-> 0]

\* the field set after a run of floatField calls, or threw when one of them
\* threw outside a try block
Built(threw, fields) == [threw |-> threw, fields |-> fields]

\* the device-specific name of the pm10 field
Pm10Name(devId) ==
    IF devId = Str("mkrwan-1") THEN "pm10_1"
    ELSE IF devId = Str("mkrwan-2") THEN "pm10_2"
    ELSE "pm10_" \o devId.s

\* part_000:197-205  the pm10 field, inside its own try block
Pm10FieldP2(devId, decoded) ==
    LET v == decoded.e["pm10"] IN
    IF v # Undef /\ TypeOf(v) = "number" /\ FloatOf(v).finite
    THEN Built(FALSE, Pm10Name(devId) :> FloatOf(v).n)
    ELSE Built(FALSE, NoFields)

\* index.js:85-94 and 228-236  the pm10 field, with no type test and no try block
Pm10FieldI(devId, decoded) ==
    LET v == decoded.e["pm10"] IN
    IF v = Undef THEN Built(FALSE, NoFields)
    ELSE IF FloatOf(v).finite THEN Built(FALSE, Pm10Name(devId) :> FloatOf(v).n)
    ELSE Built(TRUE, NoFields)

\* the loop over the other keys without its "pm10" exclusion
OtherFieldsP2_KeepsPm10(decoded) ==
    LET kept == {key \in OwnKeys(decoded) :
                    /\ TypeOf(decoded.e[key]) = "number"
                    /\ FloatOf(decoded.e[key]).finite}
    IN Built(FALSE, [key \in kept |-> FloatOf(decoded.e[key]).n])

\* part_000:208-217  every other numeric key, each floatField in its own try block
OtherFieldsP2(decoded) ==
    LET kept == {key \in OwnKeys(decoded) :
                    /\ key # "pm10"
                    /\ TypeOf(decoded.e[key]) = "number"
                    /\ FloatOf(decoded.e[key]).finite}
    IN Built(FALSE, [key \in kept |-> FloatOf(decoded.e[key]).n])

\* index.js:99-103 and 239-243  every other numeric key, no try block
OtherFieldsI(decoded) ==
    LET numeric == {key \in OwnKeys(decoded) :
                       TypeOf(decoded.e[key]) = "number" /\ key # "pm10"}
    IN IF \E key \in numeric : ~FloatOf(decoded.e[key]).finite
       THEN Built(TRUE, NoFields)
       ELSE Built(FALSE, [key \in numeric |-> FloatOf(decoded.e[key]).n])

\* part_000:57-61  every numeric key, pm10 included, no try block
AllFieldsP1(decoded) ==
    LET numeric == {key \in OwnKeys(decoded) : TypeOf(decoded.e[key]) = "number"}
    IN IF \E key \in numeric : ~FloatOf(decoded.e[key]).finite
       THEN Built(TRUE, NoFields)
       ELSE Built(FALSE, [key \in numeric |-> FloatOf(decoded.e[key]).n])

\* the fields of the point: the pm10 field is set first, the loop's fields after
\* it, so a loop field of the same name replaces it
FieldsOf(r, devId, decoded) ==
    IF r = "part0_r1" THEN AllFieldsP1(decoded)
    ELSE LET pm == IF r = "part0_r2" THEN Pm10FieldP2(devId, decoded)
                   ELSE Pm10FieldI(devId, decoded)
             others == IF r = "part0_r2" THEN OtherFieldsP2(decoded)
                       ELSE OtherFieldsI(decoded)
         IN Built(pm.threw \/ others.threw, others.fields @@ pm.fields)

Decode(r, m) ==
    CASE r = "part0_r1" -> DecodeP1(m)
      [] r = "index_r1" -> DecodeI1(m)
      [] r = "index_r2" -> DecodeI2(m)
      [] OTHER          -> DecodeP2(m)

\* new Point("air_quality").tag("device", devId) with its fields
Point(devId, fields) == [device |-> devId, fields |-> fields]

NoPoint == Point(Undef, NoFields)

\* What a handler does with a message: calls is the number of writePoint calls
\* it makes, point the point it hands over, ok whether writePoint returned.
\* writeThrows is the sink's answer to the call.
Handled(calls, point, ok) == [calls |-> calls, point |-> point, ok |-> ok]

HandleMessage(r, m, writeThrows) ==
    LET d == Decode(r, m)
        b == FieldsOf(r, d.devId, d.decoded)
    IN IF d.status # "ok" \/ b.threw
       THEN Handled(0, NoPoint, FALSE)
       ELSE Handled(1, Point(d.devId, b.fields), ~writeThrows)

(***************************************************************************)
(* Process state.                                                          *)
(***************************************************************************)
WATCHDOG_MINUTES == 5       \* part_000:240
OFFLINE_MINUTES == 5        \* index.js:265
TICK_MS == 30000            \* part_000:258, index.js:268
MINUTE_MS == 60000          \* part_000:243, index.js:264

\* Date.now() - since, in milliseconds
ElapsedMs(since) == (now - since) * StepTicks * TICK_MS

\* the paths that call writeApi.close() and exit when it settles
Paths == {"watchdog", "uncaughtException", "unhandledRejection", "SIGINT", "SIGTERM"}

NoPm10 == <<Undef, "">>

Init ==
    /\ rev \in Revisions
    /\ now = StartTime
    /\ mqttConnected = FALSE                                   \* part_000:89
    /\ lastMQTTConnected = 0                                   \* part_000:88
    /\ lastMQTTOnline = IF rev = "index_r2" THEN now ELSE 0    \* index.js:150
    /\ lifecycle = "none"
    /\ lastEvent = "start"
    /\ pending = [path \in Paths |-> 0]
    /\ closeCalls = 0
    /\ exited = FALSE
    /\ exitCode = 0
    /\ exitBy = "none"
    /\ msg = NoMessage
    /\ writeCalls = 0
    /\ handed = NoPoint
    /\ writeOk = FALSE
    /\ inbox = <<>>
    /\ pm10Seen = NoPm10
    /\ subCalls = 0

\* time passes
Advance ==
    /\ ~exited
    /\ now < MaxTime
    /\ now' = now + 1
    /\ lastEvent' = "time"
    /\ UNCHANGED <<rev, connVars, lifecycle, exitVars, msgVars, seenVars, subCalls>>

(***************************************************************************)
(* Broker session events.                                                  *)
(***************************************************************************)
\* the connect handler's assignments: part_000:141-143, index.js:197-198
ConnectEffect ==
    /\ mqttConnected' = IF rev = "part0_r2" THEN TRUE ELSE mqttConnected
    /\ lastMQTTConnected' = IF rev = "part0_r2" THEN now ELSE lastMQTTConnected
    /\ lastMQTTOnline' = IF rev = "index_r2" THEN now ELSE lastMQTTOnline

\* a disconnect handler that forgets to clear mqttConnected
DisconnectEffect_KeepsConnected ==
    UNCHANGED <<mqttConnected, lastMQTTConnected, lastMQTTOnline>>

\* the offline, close and end handlers' assignment: part_000:155-168
\* (the other revisions only log)
DisconnectEffect ==
    /\ mqttConnected' = IF rev = "part0_r2" THEN FALSE ELSE mqttConnected
    /\ UNCHANGED <<lastMQTTConnected, lastMQTTOnline>>

\* a connect handler that subscribes on the first connection only
OnConnect_SubscribesFirstTimeOnly ==
    /\ ~exited
    /\ lifecycle # "end"
    /\ ConnectEffect
    /\ subCalls' = IF subCalls = 0 THEN 1 ELSE 0
    /\ lifecycle' = "connect"
    /\ lastEvent' = "connect"
    /\ UNCHANGED <<rev, now, exitVars, msgVars, seenVars>>

\* client.on("connect"): an ended client does not connect again
OnConnect ==
    /\ ~exited
    /\ lifecycle # "end"
    /\ ConnectEffect
    /\ subCalls' = 1
    /\ lifecycle' = "connect"
    /\ lastEvent' = "connect"
    /\ UNCHANGED <<rev, now, exitVars, msgVars, seenVars>>

OnOffline ==
    /\ ~exited
    /\ DisconnectEffect
    /\ lifecycle' = "offline"
    /\ lastEvent' = "offline"
    /\ UNCHANGED <<rev, now, exitVars, msgVars, seenVars, subCalls>>

OnClose ==
    /\ ~exited
    /\ DisconnectEffect
    /\ lifecycle' = "close"
    /\ lastEvent' = "close"
    /\ UNCHANGED <<rev, now, exitVars, msgVars, seenVars, subCalls>>

OnEnd ==
    /\ ~exited
    /\ DisconnectEffect
    /\ lifecycle' = "end"
    /\ lastEvent' = "end"
    /\ UNCHANGED <<rev, now, exitVars, msgVars, seenVars, subCalls>>

\* a reconnect handler that takes the attempt for a connection
OnReconnect_RefreshesTime ==
    /\ ~exited
    /\ lastMQTTConnected' = now
    /\ lastEvent' = "reconnect"
    /\ UNCHANGED <<rev, now, mqttConnected, lastMQTTOnline, lifecycle, exitVars,
                   msgVars, seenVars, subCalls>>

\* client.on("reconnect") and client.on("error") only log
OnReconnect ==
    /\ ~exited
    /\ lastEvent' = "reconnect"
    /\ UNCHANGED <<rev, now, connVars, lifecycle, exitVars, msgVars, seenVars, subCalls>>

\* an error handler that gives up: it ends the process
OnError_Exits ==
    /\ ~exited
    /\ exited' = TRUE
    /\ exitCode' = 1
    /\ exitBy' = "error"
    /\ lastEvent' = "error"
    /\ UNCHANGED <<rev, now, connVars, lifecycle, pending, closeCalls, msgVars,
                   seenVars, subCalls>>

OnError ==
    /\ ~exited
    /\ lastEvent' = "error"
    /\ UNCHANGED <<rev, now, connVars, lifecycle, exitVars, msgVars, seenVars, subCalls>>

\* the callback of client.subscribe(): part_000:35-38 and 145-148,
\* index.js:40-43 and 201-204.  It logs the error or the success.
OnSubscribed(err) ==
    /\ ~exited
    /\ subCalls > 0
    /\ lastEvent' = IF err THEN "subscribeError" ELSE "subscribed"
    /\ UNCHANGED <<rev, now, connVars, lifecycle, exitVars, msgVars, seenVars, subCalls>>

Subscribed == \E err \in BOOLEAN : OnSubscribed(err)

\* the names under which the handler of revision r writes the key pm10 of m
Pm10Names(r, m) ==
    LET d == Decode(r, m) IN
    IF HandleMessage(r, m, FALSE).calls = 0 THEN {}
    ELSE IF r = "part0_r1"
         THEN {name \in DOMAIN AllFieldsP1(d.decoded).fields : name = "pm10"}
    ELSE IF r = "part0_r2" THEN DOMAIN Pm10FieldP2(d.devId, d.decoded).fields
    ELSE DOMAIN Pm10FieldI(d.devId, d.decoded).fields

\* client.on("message"): a message arrives over the session that is up.
\* part_000:177 refreshes lastMQTTConnected before anything else.
OnMessage(m, writeThrows) ==
    LET h == HandleMessage(rev, m, writeThrows) IN
    /\ ~exited
    /\ lifecycle = "connect"
    /\ lastMQTTConnected' = IF rev = "part0_r2" THEN now ELSE lastMQTTConnected
    /\ msg' = m
    /\ writeCalls' = h.calls
    /\ handed' = h.point
    /\ writeOk' = h.ok
    /\ lastEvent' = "message"
    /\ UNCHANGED <<rev, now, mqttConnected, lastMQTTOnline, lifecycle, exitVars, subCalls>>

\* a message arrives and is handled at once
Receive ==
    /\ \E m \in SmallPayloads, writeThrows \in BOOLEAN : OnMessage(m, writeThrows)
    /\ UNCHANGED seenVars

\* the next message in flight is handled; pm10Seen keeps the device and the
\* pm10 field name of the message handled before it
Dispatch ==
    /\ inbox # <<>>
    /\ \E writeThrows \in BOOLEAN : OnMessage(Head(inbox), writeThrows)
    /\ inbox' = Tail(inbox)
    /\ pm10Seen' = IF Pm10Names(rev, msg) # {}
                   THEN <<msg.dev, CHOOSE name \in Pm10Names(rev, msg) : TRUE>>
                   ELSE pm10Seen

(***************************************************************************)
(* Watchdog and shutdown paths.                                            *)
(***************************************************************************)
\* writeApi.close() is called on behalf of path; its promise is pending
CallClose(path) ==
    /\ closeCalls < MaxClose
    /\ closeCalls' = closeCalls + 1
    /\ pending' = [pending EXCEPT ![path] = @ + 1]
    /\ UNCHANGED <<exited, exitCode, exitBy>>

\* process.exit(code) reached from path
Exit(path, code) ==
    /\ exited' = TRUE
    /\ exitCode' = code
    /\ exitBy' = path

\* the option B condition without its test of mqttConnected
WatchdogDueB_IgnoresConnected ==
    /\ lastMQTTConnected > 0
    /\ ElapsedMs(lastMQTTConnected) > WATCHDOG_MINUTES * MINUTE_MS

\* part_000:243-247  the option B condition
WatchdogDueB ==
    /\ ~mqttConnected
    /\ lastMQTTConnected > 0
    /\ ElapsedMs(lastMQTTConnected) > WATCHDOG_MINUTES * MINUTE_MS

\* the variant A condition with the connection test of option B
WatchdogDueA_OnlyWhenOffline ==
    /\ lifecycle # "connect"
    /\ ElapsedMs(lastMQTTOnline) > OFFLINE_MINUTES * MINUTE_MS

\* index.js:264-265  the variant A condition
WatchdogDueA == ElapsedMs(lastMQTTOnline) > OFFLINE_MINUTES * MINUTE_MS

\* part_000:241-258  a tick of the option B watchdog
TickB ==
    /\ rev = "part0_r2"
    /\ ~exited
    /\ IF WatchdogDueB THEN CallClose("watchdog") ELSE UNCHANGED exitVars
    /\ lastEvent' = "tick"
    /\ UNCHANGED <<rev, now, connVars, lifecycle, msgVars, seenVars, subCalls>>

\* index.js:263-268  a tick of the variant A watchdog: exit at once, no close()
TickA ==
    /\ rev = "index_r2"
    /\ ~exited
    /\ IF WatchdogDueA
       THEN Exit("watchdog", 1) /\ UNCHANGED <<pending, closeCalls>>
       ELSE UNCHANGED exitVars
    /\ lastEvent' = "tick"
    /\ UNCHANGED <<rev, now, connVars, lifecycle, msgVars, seenVars, subCalls>>

\* part_000:263-270  uncaughtException and unhandledRejection handlers
Fault(path) ==
    /\ rev = "part0_r2"
    /\ ~exited
    /\ CallClose(path)
    /\ lastEvent' = path
    /\ UNCHANGED <<rev, now, connVars, lifecycle, msgVars, seenVars, subCalls>>

UncaughtException == Fault("uncaughtException")

UnhandledRejection == Fault("unhandledRejection")

\* part_000:73-78 and 281-286, index.js:117-125 and 274-281  SIGINT handlers
SigInt ==
    /\ ~exited
    /\ CallClose("SIGINT")
    /\ lastEvent' = "SIGINT"
    /\ UNCHANGED <<rev, now, connVars, lifecycle, msgVars, seenVars, subCalls>>

\* part_000:287-292  SIGTERM handler
SigTerm ==
    /\ rev = "part0_r2"
    /\ ~exited
    /\ CallClose("SIGTERM")
    /\ lastEvent' = "SIGTERM"
    /\ UNCHANGED <<rev, now, connVars, lifecycle, msgVars, seenVars, subCalls>>

\* every continuation exits with the status of the fault paths
ExitStatus_AlwaysOne(path) == 1

\* the status the continuation of path exits with once close() has settled
\* part_000:253, 265, 269 (finally -> exit(1)); part_000:285, 291 and
\* index.js:123, 279 (exit(0)); part_000:77 (process.exit(), status 0)
ExitStatus(path) == IF path \in {"SIGINT", "SIGTERM"} THEN 0 ELSE 1

\* a watchdog continuation that looks at the connection again and gives up the
\* restart when it has come back
CloseSettles_CancelsWhenConnected(path, resolved, runtimeExits) ==
    /\ ~exited
    /\ pending[path] > 0
    /\ pending' = [pending EXCEPT ![path] = @ - 1]
    /\ closeCalls' = closeCalls
    /\ IF (rev = "part0_r1" /\ ~resolved) \/ (path = "watchdog" /\ mqttConnected)
       THEN IF runtimeExits /\ rev = "part0_r1" THEN Exit("runtime", 1)
            ELSE UNCHANGED <<exited, exitCode, exitBy>>
       ELSE Exit(path, ExitStatus(path))
    /\ lastEvent' = "settled"
    /\ UNCHANGED <<rev, now, connVars, lifecycle, msgVars, seenVars, subCalls>>

\* A pending close() settles, resolved or rejected, and the continuation of its
\* path runs.  Every continuation exits whatever the outcome, except the first
\* revision's SIGINT handler (part_000:73-78): there a rejection leaves the
\* async handler before process.exit(), as an unhandled rejection with no
\* handler registered; the runtime then either ends the process with status 1
\* or only warns, depending on its version.
CloseSettles(path, resolved, runtimeExits) ==
    /\ ~exited
    /\ pending[path] > 0
    /\ pending' = [pending EXCEPT ![path] = @ - 1]
    /\ closeCalls' = closeCalls
    /\ IF rev = "part0_r1" /\ ~resolved
       THEN IF runtimeExits THEN Exit("runtime", 1)
            ELSE UNCHANGED <<exited, exitCode, exitBy>>
       ELSE Exit(path, ExitStatus(path))
    /\ lastEvent' = "settled"
    /\ UNCHANGED <<rev, now, connVars, lifecycle, msgVars, seenVars, subCalls>>

Settle == \E path \in Paths, resolved \in BOOLEAN, runtimeExits \in BOOLEAN :
              CloseSettles(path, resolved, runtimeExits)

Next ==
    \/ Advance
    \/ OnConnect
    \/ OnOffline
    \/ OnClose
    \/ OnEnd
    \/ OnReconnect
    \/ OnError
    \/ Subscribed
    \/ Receive
    \/ TickB
    \/ TickA
    \/ UncaughtException
    \/ UnhandledRejection
    \/ SigInt
    \/ SigTerm
    \/ Settle

Spec == Init /\ [][Next]_vars

\* The same process under the scheduling of the event loop: a close() that
\* was called settles, resolved or rejected, and the continuation that waits
\* for it runs.
FairSpec == Spec /\ WF_vars(Settle)

(***************************************************************************)
(* Message handling alone: the handlers applied to every payload of        *)
(* Payloads, and to every pair of payloads of Pm10Payloads, from the state *)
(* right after the first connect event.                                    *)
(***************************************************************************)
\* payloads of every device id with and without a pm10 reading
Pm10Payloads ==
    { Message(TRUE, Nested, Nested, dev, Nested,
              Decoded(Nested, [NoEntries EXCEPT !["pm10"] = a, !["temp"] = Num2])) :
        dev \in DeviceIds, a \in {Undef, Num1, Str("12")} }

InitMsg ==
    /\ rev \in Revisions
    /\ now = StartTime
    /\ mqttConnected = (rev = "part0_r2")
    /\ lastMQTTConnected = IF rev = "part0_r2" THEN now ELSE 0
    /\ lastMQTTOnline = IF rev = "index_r2" THEN now ELSE 0
    /\ lifecycle = "connect"
    /\ lastEvent = "connect"
    /\ pending = [path \in Paths |-> 0]
    /\ closeCalls = 0
    /\ exited = FALSE
    /\ exitCode = 0
    /\ exitBy = "none"
    /\ msg = NoMessage
    /\ writeCalls = 0
    /\ handed = NoPoint
    /\ writeOk = FALSE
    /\ inbox \in {<<m>> : m \in Payloads} \cup (Pm10Payloads \X Pm10Payloads)
    /\ pm10Seen = NoPm10
    /\ subCalls = 1

NextMsg == Dispatch

SpecMsg == InitMsg /\ [][NextMsg]_vars

(***************************************************************************)
(* Properties.                                                             *)
(***************************************************************************)
GraceMs == WATCHDOG_MINUTES * MINUTE_MS

\* a step in which the watchdog starts the flush-then-exit sequence
WatchdogTriggers == pending'["watchdog"] = pending["watchdog"] + 1

\* C1: in the option B revision, when no connect event has occurred and more
\* than 5 minutes have passed since process start, a watchdog tick triggers
\* shutdown.
C1_NeverConnectedTickTriggers ==
    [][(TickB /\ lifecycle = "none" /\ ElapsedMs(StartTime) > GraceMs)
          => WatchdogTriggers]_vars

\* C2: in the option B revision a step triggers the watchdog's shutdown only
\* if mqttConnected is false and lastMQTTConnected is more than 5 minutes old;
\* a tick taken while mqttConnected is true changes nothing of the shutdown
\* state.
C2_TriggerOnlyWhenDisconnectedAndStale ==
    [][/\ (rev = "part0_r2" /\ pending'["watchdog"] > pending["watchdog"])
            => (~mqttConnected /\ ElapsedMs(lastMQTTConnected) > GraceMs)
       /\ (TickB /\ mqttConnected) => UNCHANGED exitVars]_vars

\* C2 witness: a tick has just run while connected, with lastMQTTConnected
\* more than 5 minutes old, and no shutdown was started.
C2_Witness ==
    /\ rev = "part0_r2"
    /\ lastEvent = "tick"
    /\ mqttConnected
    /\ ElapsedMs(lastMQTTConnected) > GraceMs
    /\ closeCalls = 0
    /\ ~exited

\* C3: in the option B revision every tick that runs with mqttConnected false
\* and lastMQTTConnected more than 5 minutes in the past triggers shutdown.
\* (The process too has run for more than 5 minutes: the design starts
\* lastConnectedAt at the process start time.)
C3_StaleDisconnectedTickTriggers ==
    [][(/\ TickB
        /\ ~mqttConnected
        /\ ElapsedMs(lastMQTTConnected) > GraceMs
        /\ ElapsedMs(StartTime) > GraceMs)
          => WatchdogTriggers]_vars

\* C4: a connect event sets mqttConnected and sets lastMQTTConnected to the
\* current time; an offline, close or end event clears mqttConnected and
\* leaves lastMQTTConnected unchanged; so mqttConnected is true exactly when
\* the last of these events was a connect.
C4_ConnectionStateFollowsEvents ==
    /\ [][rev = "part0_r2" =>
            /\ OnConnect => (mqttConnected' /\ lastMQTTConnected' = now)
            /\ (OnOffline \/ OnClose \/ OnEnd)
                 => (~mqttConnected' /\ lastMQTTConnected' = lastMQTTConnected)]_vars
    /\ [](rev = "part0_r2" => (mqttConnected <=> lifecycle = "connect"))

\* C4 witness: a connect at an earlier time was followed by a close; the
\* flag is cleared and the time of the connect is kept.
C4_Witness ==
    /\ rev = "part0_r2"
    /\ lifecycle = "close"
    /\ lastEvent = "close"
    /\ msg = NoMessage
    /\ ~mqttConnected
    /\ lastMQTTConnected > StartTime
    /\ lastMQTTConnected < now

\* the device id of the last message is a string
HasStringDeviceId == msg.parses /\ msg.dev.k = "string"

\* C5: a payload whose device id is absent or not a string yields no
\* writePoint call (second revision of part_000, first revision of index.js).
C5_NoStringDeviceIdNoWrite ==
    (rev \in {"part0_r2", "index_r1"} /\ ~HasStringDeviceId) => writeCalls = 0

\* C6: a payload whose decoded payload is absent or not object-shaped (a
\* number, a string, a boolean, null, a list) yields no writePoint call, here
\* for the payloads that do carry a string device id.
C6_NoObjectPayloadNoWrite ==
    (rev = "part0_r2" /\ HasStringDeviceId /\ msg.dec.k # "object") => writeCalls = 0

\* the keys of the last message's decoded payload that hold a number
NumericKeys == {key \in OwnKeys(msg.dec) : msg.dec.e[key].k = "number"}

\* those that hold a finite number
FiniteKeys == {key \in NumericKeys : msg.dec.e[key].s # "Infinity"}

\* the name the design gives the pm10 field of a device
DesignPm10Name(devId) ==
    CASE devId.s = "mkrwan-1" -> "pm10_1"
      [] devId.s = "mkrwan-2" -> "pm10_2"
      [] OTHER                -> "pm10_" \o devId.s

\* the field name the design gives a key of the last message
DesignName(key) == IF key = "pm10" THEN DesignPm10Name(msg.dev) ELSE key

\* C7 as stated: the fields of the point handed to writePoint correspond
\* one-to-one to the numeric keys of the decoded payload, pm10 renamed, each
\* carrying its own value.
C7_FieldsOneToOne ==
    (rev = "part0_r2" /\ HasStringDeviceId /\ writeCalls = 1) =>
        /\ DOMAIN handed.fields = {DesignName(key) : key \in NumericKeys}
        /\ Cardinality(DOMAIN handed.fields) = Cardinality(NumericKeys)
        /\ \A key \in NumericKeys : handed.fields[DesignName(key)] = msg.dec.e[key].n

\* C7 as amended: the field names of the point are exactly the names (pm10
\* renamed) of the keys holding a finite number; a field named after a key
\* other than pm10 carries that key's value, also when pm10's device-specific
\* name is such a key; any other field carries pm10's value.
C7_FieldsOfFiniteKeys ==
    (rev = "part0_r2" /\ writeCalls = 1) =>
        /\ DOMAIN handed.fields = {DesignName(key) : key \in FiniteKeys}
        /\ \A name \in DOMAIN handed.fields :
              handed.fields[name] =
                  IF name \in FiniteKeys \ {"pm10"}
                  THEN msg.dec.e[name].n
                  ELSE msg.dec.e["pm10"].n

\* C7 witness: a point was handed over for a payload with a pm10 reading, a
\* key named like pm10's device-specific name, a non-finite number and a
\* string.
C7_Witness ==
    /\ rev = "part0_r2"
    /\ writeCalls = 1
    /\ msg.dev = Str("mkrwan-1")
    /\ msg.dec.e["pm10"] = Num1
    /\ msg.dec.e["pm10_1"] = Num2
    /\ msg.dec.e["temp"] = Infinite
    /\ msg.dec.e["humidity"] = Str("n/a")
    /\ handed.fields = ("pm10_1" :> 2)

\* C8, second clause: when pm10 is absent or not numeric the point carries no
\* pm10-derived field, that is no field of pm10's device-specific name unless
\* the payload has a numeric key of that very name (option B revision and
\* second revision of index.js).
C8_NonNumericPm10NotWritten ==
    (/\ rev \in {"part0_r2", "index_r2"}
     /\ HasStringDeviceId
     /\ writeCalls = 1
     /\ "pm10" \notin NumericKeys) =>
        \A name \in DOMAIN handed.fields : name \in NumericKeys

\* C9: two messages of distinct device ids that both carry a pm10 reading are
\* written under different pm10 field names.
C9_Pm10NamesNeverCollide ==
    (rev = "part0_r2" /\ pm10Seen # NoPm10 /\ Pm10Names(rev, msg) # {}
       /\ msg.dev # pm10Seen[1])
        => pm10Seen[2] \notin Pm10Names(rev, msg)

\* C10: in both watchdog revisions exit is never reached without an earlier
\* call of the sink's close().
C10_CloseBeforeExit ==
    (rev \in {"part0_r2", "index_r2"} /\ exited) => closeCalls > 0

\* a shutdown path has started: writeApi.close() was called, or exit reached
ShutdownStarted == closeCalls > 0 \/ exited

\* C11: once a shutdown path (watchdog trigger, crash handler, signal handler)
\* has started, the process eventually exits, whether close() resolves or
\* rejects.
C11_ShutdownLeadsToExit == ShutdownStarted ~> exited

\* C12: the exit status is 0 when exit is reached from the SIGINT or SIGTERM
\* handler, 1 when it is reached from the watchdog or from the
\* uncaughtException / unhandledRejection handlers, and never anything else.
C12_ExitStatusByPath ==
    exited =>
        /\ exitBy \in {"SIGINT", "SIGTERM"} => exitCode = 0
        /\ exitBy \in {"watchdog", "uncaughtException", "unhandledRejection"}
              => exitCode = 1
        /\ exitCode \in {0, 1}

\* C12 witness: the option B revision has exited from its SIGTERM handler
\* with status 0.
C12_Witness ==
    /\ rev = "part0_r2"
    /\ exited
    /\ exitBy = "SIGTERM"
    /\ exitCode = 0
    /\ closeCalls = 1

C14_OnlyWatchdogAndSupervisorExit ==
    [][/\ OnError => (mqttConnected' = mqttConnected /\ UNCHANGED exitVars)
       /\ (OnConnect \/ OnOffline \/ OnClose \/ OnEnd \/ OnReconnect \/ Subscribed
              \/ Receive) => UNCHANGED exitVars
       /\ (closeCalls' # closeCalls)
             => ((TickB /\ WatchdogDueB) \/ UncaughtException \/ UnhandledRejection
                   \/ SigInt \/ SigTerm)
       /\ (exited' # exited)
             => ((TickA /\ WatchdogDueA) \/ (Settle /\ closeCalls > 0))]_vars

\* C14 witness: at the end of the run, after a write that failed at the sink
\* and a transport error, the option B revision is connected and running and
\* no shutdown has started.
C14_Witness ==
    /\ rev = "part0_r2"
    /\ lastEvent = "error"
    /\ mqttConnected
    /\ writeCalls = 1
    /\ ~writeOk
    /\ now = MaxTime
    /\ closeCalls = 0
    /\ ~exited

\* C15: a field that fails to encode does not discard the rest of the point
\* (option B revision and second revision of index.js): for a payload with a
\* non-empty string device id and an object as decoded payload, a point is
\* handed to writePoint and it carries a field for every key that holds a
\* finite number (here: there is such a key), whatever the other keys hold.
C15_FieldFailureKeepsPoint ==
    (/\ rev \in {"part0_r2", "index_r2"}
     /\ HasStringDeviceId
     /\ msg.dev.s # ""
     /\ msg.dec.k = "object"
     /\ FiniteKeys # {}) =>
        /\ writeCalls = 1
        /\ \A key \in FiniteKeys : DesignName(key) \in DOMAIN handed.fields

\* C16: in the option B revision every message leads to at most one
\* writePoint call: exactly one when decoding succeeds (a non-empty string
\* device id and an object as decoded payload), none when it fails (no string
\* device id, or a decoded payload that is not an object); and whether or not
\* the call throws, the process has not started a shutdown or exited and
\* mqttConnected is unchanged, for the first message and for the next one.
C16_WriteOncePerMessage ==
    (rev = "part0_r2" /\ lastEvent = "message") =>
        /\ writeCalls <= 1
        /\ (HasStringDeviceId /\ msg.dev.s # "" /\ msg.dec.k = "object")
              => writeCalls = 1
        /\ (~HasStringDeviceId \/ msg.dec.k # "object") => writeCalls = 0
        /\ writeOk => writeCalls = 1
        /\ mqttConnected
        /\ closeCalls = 0
        /\ ~exited

\* C17: every run of the connect handler, the first and every later one,
\* makes exactly one subscribe() call; the callback of a subscribe, called
\* with an error or without, changes neither mqttConnected nor
\* lastMQTTConnected and starts no shutdown and no exit.
C17_SubscribePerConnect ==
    [][/\ OnConnect => subCalls' = 1
       /\ Subscribed => UNCHANGED <<connVars, lifecycle, exitVars, subCalls>>]_vars

\* C17 witness: after a connect at the end of the run the callback of its
\* subscribe call has reported an error; the process is connected and running.
C17_Witness ==
    /\ rev = "part0_r2"
    /\ lastEvent = "subscribeError"
    /\ subCalls = 1
    /\ mqttConnected
    /\ lastMQTTConnected = MaxTime
    /\ msg = NoMessage
    /\ closeCalls = 0
    /\ ~exited

\* C18: in the second revision of index.js a tick ends the process with
\* status 1 whenever Date.now() - lastMQTTOnline is more than 5 minutes,
\* whatever the state of the connection, and lastMQTTOnline is written only
\* by the connect handler, which sets it to the current time; so a
\* connection that has been up for more than 5 minutes is ended by the next
\* tick.
C18_VariantAExitsWhileConnected ==
    [][rev = "index_r2" =>
         /\ (TickA /\ ElapsedMs(lastMQTTOnline) > GraceMs)
               => (exited' /\ exitCode' = 1 /\ exitBy' = "watchdog")
         /\ (lastMQTTOnline' # lastMQTTOnline)
               => (OnConnect /\ lastMQTTOnline' = now)]_vars

\* C18 witness: the connection was established at process start, messages
\* were received over it, no disconnect event followed, and a tick more than
\* 5 minutes later has ended the process with status 1.
C18_Witness ==
    /\ rev = "index_r2"
    /\ lifecycle = "connect"
    /\ lastMQTTOnline = StartTime
    /\ writeCalls = 1
    /\ writeOk
    /\ lastEvent = "tick"
    /\ exited
    /\ exitBy = "watchdog"
    /\ exitCode = 1

\* the close() called by the watchdog settles and its continuation runs
WatchdogCloseSettles ==
    \E resolved \in BOOLEAN, runtimeExits \in BOOLEAN :
        CloseSettles("watchdog", resolved, runtimeExits)

\* C19: in the option B revision a watchdog trigger is irrevocable.  While the
\* close() called by the watchdog is pending, a connect event or a message
\* leaves it pending; it stays pending until the process exits or it
\* settles; and when it settles the process exits with status 1, whether or
\* not mqttConnected is true again.
C19_TriggerIrrevocable ==
    [][(rev = "part0_r2" /\ pending["watchdog"] > 0) =>
         /\ (OnConnect \/ Receive) => (pending' = pending /\ ~exited')
         /\ (pending'["watchdog"] < pending["watchdog"]) => WatchdogCloseSettles
         /\ WatchdogCloseSettles
               => (exited' /\ exitCode' = 1 /\ exitBy' = "watchdog")]_vars

\* C19 witness: the watchdog has triggered, a connect event at the end of the
\* run has set mqttConnected again while close() was pending, and the
\* process has exited from the watchdog's continuation with status 1.
C19_Witness ==
    /\ rev = "part0_r2"
    /\ mqttConnected
    /\ lifecycle = "connect"
    /\ lastMQTTConnected = MaxTime
    /\ closeCalls = 1
    /\ exited
    /\ exitBy = "watchdog"
    /\ exitCode = 1

\* the paths that end the process to have it restarted
FaultPaths == {"watchdog", "uncaughtException", "unhandledRejection"}

\* C20: concurrent shutdown triggers are tolerated in the option B revision:
\* close() may have been called more than once, and when the process has
\* exited while a shutdown started by the watchdog or by a crash handler was
\* under way (its close() is pending, or its continuation reached exit), the
\* exit status is not 0.
C20_FaultShutdownNeverExitsZero ==
    (/\ rev = "part0_r2"
     /\ exited
     /\ \E path \in FaultPaths : pending[path] > 0 \/ exitBy = path)
        => exitCode # 0

====
